---- MODULE Spec2Model ----
(***************************************************************************)
(* A model of scripts/api.py of sd-webui-controlnet: the ControlNet REST   *)
(* glue (request shim, script-argument assembly, the /controlnet/txt2img   *)
(* endpoint and the /controlnet/detect endpoint).                          *)
(*                                                                         *)
(* Python values are tagged records, so that values of different Python    *)
(* types can sit in one list and be compared: None is [none |-> TRUE], a   *)
(* str is [str |-> s], a bool is [bool |-> b], a number is [num |-> n]     *)
(* (Python compares 1 and 1.0 equal, so int and float share the tag), a    *)
(* list is [list |-> <<...>>].                                             *)
(***************************************************************************)
EXTENDS Integers, Sequences, FiniteSets, TLC

VARIABLES
    shim_in,        \* the request handed to nest_deprecated_cn_fields
    shim_ret,       \* what nest_deprecated_cn_fields returned for it
    heap,           \* the objects: the host's script runner, its scripts, the copies
    host_titles,    \* the titles of the host's always-on scripts, as it started
    cn_in,          \* the unit requests handed to create_cn_script_runner
    cn_ret,         \* what create_cn_script_runner returned (or raised) for them
    queue_lock,     \* the Api's queue_lock: 0 when free, else the thread holding it
    cls_init,       \* StableDiffusionProcessingTxt2Img.__init__
    api_self,       \* the Api object (its queue_lock attribute)
    pc,             \* per thread: where it is in api_txt2img
    req_in,         \* per thread: the request as it arrived
    l_txt2imgreq,   \* per thread: the local txt2imgreq
    l_script_runner, \* per thread: the local script_runner
    l_script_runner_args, \* per thread: the local script_runner_args
    l_self_copy,    \* per thread: the local self_copy
    override,       \* per thread: its OverrideInit object
    p,              \* per thread: the processing object text2imgapi constructed
    result,         \* per thread: what the request ends with
    det_in,         \* the body of the /controlnet/detect request
    det_pc,         \* where the detect handler is
    det_log,        \* the annotator and unload calls the handler made, in order
    results,        \* the handler's local results
    det_ret,        \* what the handler returned (or raised)
    samples_format  \* opts.samples_format

shim_vars == <<shim_in, shim_ret>>
runner_vars == <<heap, host_titles, cn_in, cn_ret>>
call_vars == <<cn_in, cn_ret>>
local_vars == <<req_in, l_txt2imgreq, l_script_runner, l_script_runner_args, l_self_copy,
                override, p, result>>
txt_vars == <<queue_lock, cls_init, api_self, pc, local_vars>>
det_vars == <<det_in, det_pc, det_log, results, det_ret, samples_format>>
vars == <<shim_vars, runner_vars, txt_vars, det_vars>>

-----------------------------------------------------------------------------
(* Python values *)

None == [none |-> TRUE]
Str(s) == [str |-> s]
Bool(b) == [bool |-> b]
Num(n) == [num |-> n]
List(s) == [list |-> s]

\* bool(v) as Python computes it
Truthy(v) ==
    IF "none" \in DOMAIN v THEN FALSE
    ELSE IF "str" \in DOMAIN v THEN v.str # ""
    ELSE IF "bool" \in DOMAIN v THEN v.bool
    ELSE IF "num" \in DOMAIN v THEN v.num # 0
    ELSE IF "list" \in DOMAIN v THEN v.list # <<>>
    ELSE TRUE

\* the element of a one-element set: The({e(x) : x \in {v}}) is e with x bound
\* to the value of v
The(S) == CHOOSE x \in S : TRUE

\* a value no Python object equals: "this call has not returned"
NotCalled == [not_called |-> TRUE]

\* The parts of the program a specification does not exercise stay as they
\* are before any request arrives.
ShimIdle == shim_in = NotCalled /\ shim_ret = NotCalled

RunnerIdle ==
    /\ heap = <<>>
    /\ host_titles = <<>>
    /\ cn_in = NotCalled
    /\ cn_ret = NotCalled

CallIdle == cn_in = NotCalled /\ cn_ret = NotCalled

NumThreads == 2
Threads == 1..NumThreads

\* StableDiffusionProcessingTxt2Img.__init__ as the class defines it
Original == [fn |-> "original_init"]

TxtIdle ==
    /\ queue_lock = 0
    /\ cls_init = Original
    /\ api_self = [queue_lock |-> "Lock"]
    /\ pc = [t \in Threads |-> "idle"]
    /\ req_in = [t \in Threads |-> NotCalled]
    /\ l_txt2imgreq = [t \in Threads |-> NotCalled]
    /\ l_script_runner = [t \in Threads |-> NotCalled]
    /\ l_script_runner_args = [t \in Threads |-> NotCalled]
    /\ l_self_copy = [t \in Threads |-> NotCalled]
    /\ override = [t \in Threads |-> NotCalled]
    /\ p = [t \in Threads |-> NotCalled]
    /\ result = [t \in Threads |-> NotCalled]

DetIdle ==
    /\ det_in = NotCalled
    /\ det_pc = "idle"
    /\ det_log = <<>>
    /\ results = <<>>
    /\ det_ret = NotCalled
    /\ samples_format = "png"

-----------------------------------------------------------------------------
(* cn_fields and the request schema *)

cn_fields ==
    [ input_image   |-> Str(""),
      mask          |-> Str(""),
      module        |-> Str("none"),
      model         |-> Str("None"),
      weight        |-> Num(1),
      resize_mode   |-> Str("Scale to Fit (Inner Fit)"),
      lowvram       |-> Bool(FALSE),
      processor_res |-> Num(64),
      threshold_a   |-> Num(64),
      threshold_b   |-> Num(64),
      guidance      |-> Num(1),
      guessmode     |-> Bool(TRUE) ]

ListFields == {"input_image", "mask"}
ScalarFields == DOMAIN cn_fields \ ListFields

get_deprecated_field_default(field_name) ==
    IF field_name \in ListFields THEN List(<<>>) ELSE cn_fields[field_name]

\* ControlNetUnitRequest(**kwargs): the fields given, the others at their default
ControlNetUnitRequest(kwargs) ==
    [k \in DOMAIN cn_fields |-> IF k \in DOMAIN kwargs THEN kwargs[k] ELSE cn_fields[k]]

\* The attribute names of a StableDiffusionTxt2ImgControlNetProcessingAPI that
\* start with 'controlnet_', each with what follows the prefix
\* (k[len('controlnet_'):]).  The attributes the host's schema brings (prompt,
\* script_args, ...) do not start with it.
ControlnetPrefixed ==
    [ controlnet_units         |-> "units",
      controlnet_input_image   |-> "input_image",
      controlnet_mask          |-> "mask",
      controlnet_module        |-> "module",
      controlnet_model         |-> "model",
      controlnet_weight        |-> "weight",
      controlnet_resize_mode   |-> "resize_mode",
      controlnet_lowvram       |-> "lowvram",
      controlnet_processor_res |-> "processor_res",
      controlnet_threshold_a   |-> "threshold_a",
      controlnet_threshold_b   |-> "threshold_b",
      controlnet_guidance      |-> "guidance",
      controlnet_guessmode     |-> "guessmode" ]

startswith_controlnet(k) == k \in DOMAIN ControlnetPrefixed

\* the attribute whose name is 'controlnet_' + f
Prefixed(f) == CHOOSE k \in DOMAIN ControlnetPrefixed : ControlnetPrefixed[k] = f

\* the host's own attributes of a txt2img request that the module touches
HostAttrs == {"prompt", "script_args"}

-----------------------------------------------------------------------------
(* nest_deprecated_cn_fields *)

\* lst[0]; an empty list raises IndexError
Index0(lst) == IF lst.list = <<>> THEN [raised |-> "IndexError"] ELSE lst.list[1]

\* deprecated_cn_fields[k][0] if get_deprecated_field_default(k) else ""
NestListField(k, v) ==
    IF Truthy(get_deprecated_field_default(k)) THEN Index0(v) ELSE Str("")

DeprecatedKeys(txt2imgreq) ==
    {k \in DOMAIN txt2imgreq : startswith_controlnet(k) /\ k # "controlnet_units"}

\* txt2imgreq.copy(exclude=keys)
CopyExcludeNothing(txt2imgreq, keys) == txt2imgreq
CopyExclude(txt2imgreq, keys) ==
    [k \in DOMAIN txt2imgreq \ keys |-> txt2imgreq[k]]

\* lst.insert(0, x)
InsertAtEnd(lst, x) == lst \o <<x>>
InsertAt0(lst, x) == <<x>> \o lst

nest_deprecated_cn_fields(txt2imgreq) ==
    LET keys == DeprecatedKeys(txt2imgreq)
        copied == CopyExclude(txt2imgreq, keys)
        stripped == [f \in {ControlnetPrefixed[k] : k \in keys} |-> txt2imgreq[Prefixed(f)]]
        defaulted == [f \in DOMAIN stripped |->
                        IF stripped[f] = None THEN get_deprecated_field_default(f)
                        ELSE stripped[f]]
        nested == [f \in DOMAIN defaulted |->
                        IF f \in ListFields THEN NestListField(f, defaulted[f])
                        ELSE defaulted[f]]
    IN  IF \A k \in keys : txt2imgreq[k] = None
        THEN copied
        ELSE [copied EXCEPT !.controlnet_units =
                 InsertAt0(copied.controlnet_units, ControlNetUnitRequest(nested))]

-----------------------------------------------------------------------------
(* Decoding of encoded images *)

\* the outcome of a call: a value returned or an exception raised
Ok(v) == [raised |-> "", value |-> v]
Raise(e) == [raised |-> e]

\* s.split(sep) for the strings the model uses
Split(s, sep) ==
    CASE s = "data:image/png;base64,imgB" /\ sep = ";" -> <<"data:image/png", "base64,imgB">>
      [] s = "base64,imgB" /\ sep = "," -> <<"base64", "imgB">>
      [] OTHER -> <<s>>

startswith_data_image(s) == s \in {"data:image/png;base64,imgB", "data:image/png"}

\* the base64 payloads behind which there is an image file
DecodableImages == {"imgA", "imgB", "imgC", "mskA", "mskC"}

\* Image.open(io.BytesIO(base64.b64decode(encoding)))
ImageOpen(payload) ==
    IF payload \in DecodableImages THEN Ok([image |-> payload]) ELSE Raise("Exception")

decode_base64_to_image(encoding) ==
    LET semi == Split(encoding, ";")
        comma == IF Len(semi) >= 2 THEN Split(semi[2], ",") ELSE <<>>
    IN  IF startswith_data_image(encoding) /\ (Len(semi) < 2 \/ Len(comma) < 2)
        THEN Raise("IndexError")
        ELSE LET payload == IF startswith_data_image(encoding) THEN comma[2] ELSE encoding
                 opened == ImageOpen(payload)
             IN  IF opened.raised # "" THEN Raise("HTTPException") ELSE opened

to_base64_nparray(encoding) ==
    LET r == decode_base64_to_image(encoding)
    IN  IF r.raised # "" THEN r ELSE Ok([ndarray |-> r.value.image])

-----------------------------------------------------------------------------
(* create_processing_unit_args and create_cn_script_runner *)

\* the 14 arguments of one unit, given its decoded image and mask
processing_unit_args(unit_request, image, mask) ==
    IF image.raised # "" THEN image
    ELSE IF mask.raised # "" THEN mask
    ELSE Ok(<< Bool(TRUE),
               unit_request.module,
               unit_request.model,
               unit_request.weight,
               [dict |-> [image |-> image.value, mask |-> mask.value]],
               Bool(FALSE),
               unit_request.resize_mode,
               Bool(FALSE),
               unit_request.lowvram,
               unit_request.processor_res,
               unit_request.threshold_a,
               unit_request.threshold_b,
               unit_request.guidance,
               unit_request.guessmode >>)

create_processing_unit_args(unit_request) ==
    The({ processing_unit_args(unit_request, image, mask) :
            image \in { IF Truthy(unit_request.input_image)
                        THEN to_base64_nparray(unit_request.input_image.str)
                        ELSE Ok(None) },
            mask \in { IF Truthy(unit_request.mask)
                       THEN to_base64_nparray(unit_request.mask.str)
                       ELSE Ok([ndarray |-> "array(0).reshape((1, 1, 1))"]) } })

\* cn_punit_args after the loop over the unit requests from the i-th on (the
\* first exception ends the loop)
RECURSIVE ExtendWithUnitsNested(_, _, _)
ExtendWithUnitsNested(cn_punit_args, control_unit_requests, i) ==
    IF i > Len(control_unit_requests) THEN Ok(cn_punit_args)
    ELSE The({ IF block.raised # "" THEN block
               ELSE ExtendWithUnitsNested(Append(cn_punit_args, block.value),
                                          control_unit_requests, i + 1) :
               block \in {create_processing_unit_args(control_unit_requests[i])} })

RECURSIVE ExtendWithUnits(_, _, _)
ExtendWithUnits(cn_punit_args, control_unit_requests, i) ==
    IF i > Len(control_unit_requests) THEN Ok(cn_punit_args)
    ELSE The({ IF block.raised # "" THEN block
               ELSE ExtendWithUnits(cn_punit_args \o block.value,
                                    control_unit_requests, i + 1) :
               block \in {create_processing_unit_args(control_unit_requests[i])} })

\* Objects live in a heap (address -> object) and are named by references, so
\* that a shallow copy shares what the original refers to.
Ref(a) == [ref |-> a]

Alloc(h, a, obj) == (a :> obj) @@ h

\* copy.copy(obj): a new object at address a with the same attribute values
copy_alias(h, r, a) == [heap |-> h, ref |-> r]
copy_copy(h, r, a) == [heap |-> Alloc(h, a, h[r.ref]), ref |-> Ref(a)]

\* str.lower() of the script titles the model uses
lower(title) ==
    CASE title = "ControlNet" -> "controlnet"
      [] title = "CONTROLNET" -> "controlnet"
      [] title = "Other Script" -> "other script"
      [] title = "JPEG" -> "jpeg"
      [] OTHER -> title

\* lst.index(x): the first position (from 0) of x, or ValueError
index(lst, x) ==
    IF \E i \in 1..Len(lst) : lst[i] = x
    THEN Ok((CHOOSE i \in 1..Len(lst) : lst[i] = x /\ \A j \in 1..(i - 1) : lst[j] # x) - 1)
    ELSE Raise("ValueError")

\* script_runner.alwayson_scripts
alwayson_scripts(h, script_runner) == h[h[script_runner.ref].alwayson_scripts.ref].items

\* lines 233-238: the copy of the controlnet script, its window, and the
\* one-element list of the copied runner
cn_install(h, cn_script_runner, cn_script, cn_punit_args, base) ==
    [ heap |-> [ Alloc(h, base + 2, [cls |-> "list", items |-> <<cn_script>>])
                   EXCEPT ![cn_script.ref].args_from = 0,
                          ![cn_script.ref].args_to = Len(cn_punit_args),
                          ![cn_script_runner.ref].alwayson_scripts = Ref(base + 2) ],
      raised |-> "",
      runner |-> cn_script_runner,
      args |-> cn_punit_args ]

\* lines 231-240, given the copied runner and the outcome of the loop
cn_select(h, cn_script_runner, script_runner, cn_punit_args, base) ==
    IF cn_punit_args.raised # ""
    THEN [heap |-> h, raised |-> cn_punit_args.raised]
    ELSE The({ IF cn_script_id.raised = "ValueError"
               THEN [heap |-> h, raised |-> "", runner |-> None, args |-> <<>>]
               ELSE The({ cn_install(c2.heap, cn_script_runner, c2.ref,
                                     cn_punit_args.value, base) :
                          c2 \in {copy_copy(h, scripts_list[cn_script_id.value + 1],
                                            base + 1)} }) :
               scripts_list \in {alwayson_scripts(h, script_runner)},
               cn_script_id \in
                 {index([i \in 1..Len(alwayson_scripts(h, script_runner)) |->
                           lower(h[alwayson_scripts(h, script_runner)[i].ref].title)],
                        "controlnet")} })

\* create_cn_script_runner(script_runner, control_unit_requests), allocating at
\* base, base + 1, base + 2.  Gives the heap after the call and either the
\* returned pair or the exception that leaves the function.
create_cn_script_runner(h, script_runner, control_unit_requests, base) ==
    The({ cn_select(c1.heap, c1.ref, script_runner, cn_punit_args, base) :
            c1 \in {copy_copy(h, script_runner, base)},
            cn_punit_args \in {ExtendWithUnits(<<Bool(FALSE)>>, control_unit_requests, 1)} })

-----------------------------------------------------------------------------
(* The requests the shim is exercised on *)

MaxUnits == 2

SeqsUpTo(S, n) == UNION {[1..m -> S] : m \in 0..n}

\* values a caller gives that differ from the defaults (0 and False are falsy
\* but given)
Given ==
    [ module        |-> Str("canny"),
      model         |-> Str("control_sd15_canny"),
      weight        |-> Num(2),
      resize_mode   |-> Str("Envelope (Outer Fit)"),
      lowvram       |-> Bool(TRUE),
      processor_res |-> Num(512),
      threshold_a   |-> Num(100),
      threshold_b   |-> Num(200),
      guidance      |-> Num(0),
      guessmode     |-> Bool(FALSE) ]

UnitA == ControlNetUnitRequest([module |-> Str("depth"), input_image |-> Str("imgB")])
UnitB == ControlNetUnitRequest([module |-> Str("openpose"), input_image |-> Str("imgC"),
                                mask |-> Str("mskC")])
UnitPool == {UnitA, UnitB}

\* units whose image is a data URI, is no image, is a data URI with no payload
UnitUri == ControlNetUnitRequest([module |-> Str("canny"),
                                  input_image |-> Str("data:image/png;base64,imgB")])
UnitBad == ControlNetUnitRequest([module |-> Str("hed"), input_image |-> Str("not an image")])
UnitBadUri == ControlNetUnitRequest([module |-> Str("hed"), mask |-> Str("data:image/png")])
RunnerUnitPool == {UnitA, UnitB, UnitUri, UnitBad, UnitBadUri}

\* Optional[List[str]]: absent, empty, or one encoded image
ImageChoices == {None, List(<<>>), List(<<Str("imgA")>>)}
MaskChoices == {None, List(<<>>), List(<<Str("mskA")>>)}

MkRequest(script_args, units, given, img, mask) ==
    [k \in HostAttrs \cup DOMAIN ControlnetPrefixed |->
        CASE k = "prompt" -> Str("a cat")
          [] k = "script_args" -> script_args
          [] k = "controlnet_units" -> units
          [] k = "controlnet_input_image" -> img
          [] k = "controlnet_mask" -> mask
          [] OTHER -> IF ControlnetPrefixed[k] \in given
                      THEN Given[ControlnetPrefixed[k]] ELSE None]

ShimRequests ==
    { MkRequest(<<>>, units, given, img, mask) :
        units \in SeqsUpTo(UnitPool, MaxUnits), given \in SUBSET ScalarFields,
        img \in ImageChoices, mask \in MaskChoices }

InitShim ==
    /\ shim_in \in ShimRequests
    /\ shim_ret = NotCalled
    /\ RunnerIdle
    /\ TxtIdle
    /\ DetIdle

CallNest ==
    /\ shim_ret = NotCalled
    /\ shim_ret' = nest_deprecated_cn_fields(shim_in)
    /\ UNCHANGED <<shim_in, runner_vars, txt_vars, det_vars>>

NextShim == CallNest

SpecShim == InitShim /\ [][NextShim]_vars

-----------------------------------------------------------------------------
(* The host's script runner (scripts.scripts_txt2img) and calls of
   create_cn_script_runner on it *)

MaxHostScripts == 2

HostTitles == {"ControlNet", "CONTROLNET", "Other Script"}

\* the number of UI arguments the host gave a script
UiArgCount(title) == IF lower(title) = "controlnet" THEN 15 ELSE 2

\* the host numbers the windows of its always-on scripts one after the other,
\* from 1 (index 0 of script_args is the selected script)
RECURSIVE HostArgsFrom(_, _)
HostArgsFrom(titles, i) ==
    IF i = 1 THEN 1 ELSE HostArgsFrom(titles, i - 1) + UiArgCount(titles[i - 1])

\* address 0: the runner; address 1: its alwayson_scripts list; 2..: the scripts
HostRunner == Ref(0)
HostBase == 2 + MaxHostScripts + 1

HostScript(titles, i) ==
    [ cls |-> "Script", title |-> titles[i],
      args_from |-> HostArgsFrom(titles, i),
      args_to |-> HostArgsFrom(titles, i) + UiArgCount(titles[i]) ]

HostHeap(titles) ==
    [a \in 0..(1 + Len(titles)) |->
        IF a = 0 THEN [cls |-> "ScriptRunner", alwayson_scripts |-> Ref(1)]
        ELSE IF a = 1 THEN [cls |-> "list", items |-> [i \in 1..Len(titles) |-> Ref(1 + i)]]
        ELSE HostScript(titles, a - 1)]

\* the addresses an object refers to
RefsOf(obj) ==
    IF obj.cls = "ScriptRunner" THEN {obj.alwayson_scripts.ref}
    ELSE IF obj.cls = "list" THEN {obj.items[i].ref : i \in 1..Len(obj.items)}
    ELSE {}

RECURSIVE Reachable(_, _)
Reachable(h, from) ==
    LET more == from \cup UNION {RefsOf(h[a]) : a \in from}
    IN  IF more = from THEN from ELSE Reachable(h, more)

\* what is left of the heap once nothing but `roots` is referred to
Collect(h, roots) == [a \in Reachable(h, roots) |-> h[a]]

InitRunner ==
    /\ host_titles \in SeqsUpTo(HostTitles, MaxHostScripts)
    /\ heap = HostHeap(host_titles)
    /\ cn_in = NotCalled
    /\ cn_ret = NotCalled
    /\ ShimIdle
    /\ TxtIdle
    /\ DetIdle

CallCreate ==
    /\ cn_ret = NotCalled
    /\ \E units \in SeqsUpTo(RunnerUnitPool, MaxUnits) :
         \E r \in {create_cn_script_runner(heap, HostRunner, units, HostBase)} :
             /\ cn_in' = units
             /\ heap' = r.heap
             /\ cn_ret' = [k \in DOMAIN r \ {"heap"} |-> r[k]]
    /\ UNCHANGED <<host_titles, shim_vars, txt_vars, det_vars>>

\* the caller is done with what the call returned
DropResult ==
    /\ cn_ret # NotCalled
    /\ cn_in' = NotCalled
    /\ cn_ret' = NotCalled
    /\ heap' = Collect(heap, {HostRunner.ref})
    /\ UNCHANGED <<host_titles, shim_vars, txt_vars, det_vars>>

NextRunner == CallCreate \/ DropResult

SpecRunner == InitRunner /\ [][NextRunner]_vars

-----------------------------------------------------------------------------
(* Claims about create_cn_script_runner (under SpecRunner) *)

CreateReturned == cn_ret # NotCalled /\ cn_ret.raised = ""
HostHasControlnet == \E i \in 1..Len(host_titles) : lower(host_titles[i]) = "controlnet"

\* C4: with a 'controlnet' always-on script in the host runner, a call with n
\* unit requests returns a list of 1 + 14*n arguments: element 0 is False, the
\* i-th block of 14 starts with True and the i-th unit's module, model and
\* weight; the returned runner has exactly one always-on script, the controlnet
\* script, with args_from = 0 and args_to = 1 + 14*n.
C4_ArgsAssembled ==
    (CreateReturned /\ HostHasControlnet) =>
        LET n == Len(cn_in)
            args == cn_ret.args
            scripts_list == heap[heap[cn_ret.runner.ref].alwayson_scripts.ref].items
        IN  /\ Len(args) = 1 + 14 * n
            /\ args[1] = Bool(FALSE)
            /\ \A i \in 1..n :
                 /\ args[1 + 14 * (i - 1) + 1] = Bool(TRUE)
                 /\ args[1 + 14 * (i - 1) + 2] = cn_in[i].module
                 /\ args[1 + 14 * (i - 1) + 3] = cn_in[i].model
                 /\ args[1 + 14 * (i - 1) + 4] = cn_in[i].weight
            /\ cn_ret.runner # None
            /\ Len(scripts_list) = 1
            /\ lower(heap[scripts_list[1].ref].title) = "controlnet"
            /\ heap[scripts_list[1].ref].args_from = 0
            /\ heap[scripts_list[1].ref].args_to = 1 + 14 * n

\* two different units were assembled for a host whose controlnet script is not
\* its first script
C4_Witness ==
    /\ CreateReturned
    /\ Len(host_titles) = 2
    /\ lower(host_titles[1]) # "controlnet"
    /\ lower(host_titles[2]) = "controlnet"
    /\ Len(cn_in) = 2
    /\ cn_in[1] # cn_in[2]
    /\ Len(cn_ret.args) = 29

\* C9: whatever calls were made, the host runner keeps its alwayson_scripts
\* list with the same scripts in the same order and every host script keeps its
\* args_from and args_to; what a call returns is a runner and a script of its
\* own, not the host's.
C9_HostUnaltered ==
    /\ \A a \in DOMAIN HostHeap(host_titles) : heap[a] = HostHeap(host_titles)[a]
    /\ (CreateReturned /\ cn_ret.runner # None) =>
          /\ cn_ret.runner.ref \notin DOMAIN HostHeap(host_titles)
          /\ heap[cn_ret.runner.ref].alwayson_scripts.ref \notin DOMAIN HostHeap(host_titles)
          /\ \A i \in 1..Len(heap[heap[cn_ret.runner.ref].alwayson_scripts.ref].items) :
                heap[heap[cn_ret.runner.ref].alwayson_scripts.ref].items[i].ref
                    \notin DOMAIN HostHeap(host_titles)

\* a call returned a runner for a host with two scripts, whose controlnet
\* script has a window of its own
C9_Witness ==
    /\ CreateReturned
    /\ cn_ret.runner # None
    /\ Len(host_titles) = 2
    /\ Len(cn_in) = 1
    /\ heap[heap[HostRunner.ref].alwayson_scripts.ref].items = <<Ref(2), Ref(3)>>
    /\ heap[3].args_from # 0

-----------------------------------------------------------------------------
(* Claims about nest_deprecated_cn_fields (under SpecShim) *)

ShimCalled == shim_ret # NotCalled
SomeDeprecatedGiven == \E k \in DeprecatedKeys(shim_in) : shim_in[k] # None
AllDeprecatedNone == \A k \in DeprecatedKeys(shim_in) : shim_in[k] = None

\* the unit defaults as the claim C1 lists them
ClaimedUnitDefaults ==
    [ module        |-> Str("none"),
      model         |-> Str("None"),
      weight        |-> Num(1),
      resize_mode   |-> Str("Scale to Fit (Inner Fit)"),
      lowvram       |-> Bool(FALSE),
      processor_res |-> Num(64),
      threshold_a   |-> Num(64),
      threshold_b   |-> Num(64),
      guidance      |-> Num(1),
      guessmode     |-> Bool(TRUE) ]

\* C1: when at least one deprecated flat field is not None, the returned
\* controlnet_units is the original list with exactly one unit inserted at
\* index 0 (the originals follow in order), and each scalar field of that unit
\* is the given flat value, or the unit default where the flat value was None.
C1_ShimInsertsOneUnit ==
    (ShimCalled /\ SomeDeprecatedGiven) =>
        LET old == shim_in.controlnet_units
            new == shim_ret.controlnet_units
        IN  /\ Len(new) = Len(old) + 1
            /\ SubSeq(new, 2, Len(new)) = old
            /\ \A f \in ScalarFields :
                  new[1][f] = IF shim_in[Prefixed(f)] = None
                              THEN ClaimedUnitDefaults[f]
                              ELSE shim_in[Prefixed(f)]

\* a shimmed request that had units of its own, some scalars given and some not
C1_Witness ==
    /\ ShimCalled
    /\ Len(shim_in.controlnet_units) = 2
    /\ shim_in.controlnet_units[1] # shim_in.controlnet_units[2]
    /\ shim_in.controlnet_module # None
    /\ shim_in.controlnet_guidance # None
    /\ shim_in.controlnet_weight = None
    /\ Len(shim_ret.controlnet_units) = 3

\* C2: when the deprecated controlnet_input_image (resp. controlnet_mask) is a
\* non-empty list, the inserted unit's input_image (resp. mask) is the first
\* element of that list; it is the empty string only when the list was None.
C2_ImageCarried ==
    (ShimCalled /\ SomeDeprecatedGiven) =>
        \A f \in ListFields :
            LET given == shim_in[Prefixed(f)]
                got == shim_ret.controlnet_units[1][f]
            IN  /\ (given # None /\ given.list # <<>>) => got = given.list[1]
                /\ (got = Str("") /\ given # None) => given.list = <<>>

\* C3: when every deprecated flat field is None the units are returned as
\* sent; and in every case the returned request has no deprecated controlnet_*
\* attribute, only controlnet_units.
C3_NoShimLeavesUnits ==
    ShimCalled =>
        /\ AllDeprecatedNone => shim_ret.controlnet_units = shim_in.controlnet_units
        /\ {k \in DOMAIN shim_ret : startswith_controlnet(k)} = {"controlnet_units"}
        /\ DOMAIN shim_ret = DOMAIN shim_in \ DeprecatedKeys(shim_in)

\* a request with no deprecated field and two units went through the shim
C3_Witness ==
    /\ ShimCalled
    /\ AllDeprecatedNone
    /\ Len(shim_in.controlnet_units) = 2
    /\ DeprecatedKeys(shim_in) # {}

-----------------------------------------------------------------------------
(* Api.api_txt2img and OverrideInit: concurrent /controlnet/txt2img requests *)

\* txt2imgreq.script_args += script_runner_args
iadd_script_args(txt2imgreq, script_runner_args) ==
    [txt2imgreq EXCEPT !.script_args = @ \o script_runner_args]

\* delattr(txt2imgreq, name)
delattr_nothing(txt2imgreq, name) == txt2imgreq
delattr(txt2imgreq, name) == [k \in DOMAIN txt2imgreq \ {name} |-> txt2imgreq[k]]

\* the addresses thread t's call of create_cn_script_runner allocates from
ThreadBase(t) == HostBase + 3 * (t - 1)

\* what the heap keeps: the host's runner and the runners the threads hold
LiveHeap(h, runners) ==
    Collect(h, {HostRunner.ref} \cup
               {runners[t].ref : t \in {u \in Threads : "ref" \in DOMAIN runners[u]}})

\* the original constructor: the request's attributes become the object's, and
\* scripts is None
original_init(txt2imgreq) ==
    [ scripts |-> None, script_args |-> txt2imgreq.script_args,
      trace |-> <<"original_init">> ]

\* cls.__init__(p, **vars(request)) for whatever __init__ currently is:
\* override_init calls the original_init its OverrideInit saved, then sets
\* the kwargs
RECURSIVE call_init(_, _)
call_init(init, txt2imgreq) ==
    IF init = Original THEN original_init(txt2imgreq)
    ELSE LET made == call_init(init.self.original_init, txt2imgreq)
         IN  [made EXCEPT !.scripts = init.self.kwargs.scripts,
                          !.trace = Append(@, "setattr scripts")]

\* OverrideInit.__exit__: what cls.__init__ becomes
OverrideInit_exit_keep(current_init, self) == current_init
OverrideInit_exit(current_init, self) == self.original_init

\* the requests the endpoint is exercised on: one unit; one unit and script
\* arguments of the caller's own; the deprecated flat fields only; a unit whose
\* image is no image; no ControlNet field at all
TxtRequests ==
    { MkRequest(<<>>, <<UnitA>>, {}, None, None),
      MkRequest(<<Num(7)>>, <<UnitA>>, {}, None, None),
      MkRequest(<<>>, <<>>, {"module"}, List(<<Str("imgA")>>), None),
      MkRequest(<<>>, <<UnitBad>>, {}, None, None),
      MkRequest(<<>>, <<>>, {}, None, None) }

TxtHostConfigs == {<<"Other Script">>, <<"Other Script", "ControlNet">>}

Init ==
    /\ host_titles \in TxtHostConfigs
    /\ heap = HostHeap(host_titles)
    /\ CallIdle
    /\ ShimIdle
    /\ TxtIdle
    /\ DetIdle

\* lines 170-173: local to the request, and reads of scripts.scripts_txt2img
Prepare(t) ==
    /\ pc[t] = "idle"
    /\ \E received \in TxtRequests :
         \E nested \in {nest_deprecated_cn_fields(received)} :
         \E r \in {create_cn_script_runner(heap, HostRunner, nested.controlnet_units,
                                           ThreadBase(t))} :
             /\ req_in' = [req_in EXCEPT ![t] = received]
             /\ IF r.raised # ""
                THEN /\ result' = [result EXCEPT ![t] =
                            [raised |-> r.raised, in |-> "create_cn_script_runner"]]
                     /\ pc' = [pc EXCEPT ![t] = "done"]
                     /\ heap' = LiveHeap(r.heap, l_script_runner)
                     /\ UNCHANGED <<l_txt2imgreq, l_script_runner, l_script_runner_args>>
                ELSE /\ l_txt2imgreq' = [l_txt2imgreq EXCEPT ![t] =
                            delattr(iadd_script_args(nested, r.args), "controlnet_units")]
                     /\ l_script_runner' = [l_script_runner EXCEPT ![t] = r.runner]
                     /\ l_script_runner_args' = [l_script_runner_args EXCEPT ![t] = r.args]
                     /\ heap' = r.heap
                     /\ pc' = [pc EXCEPT ![t] = "acquire"]
                     /\ UNCHANGED result
    /\ UNCHANGED <<queue_lock, cls_init, api_self, l_self_copy, override, p,
                   host_titles, call_vars, shim_vars, det_vars>>

\* lines 175-176 with the copy left as copy.copy made it: its queue_lock is
\* the lock of self
copy_keeps_lock(self) == [self |-> self, self_copy |-> self]

\* lines 175-176: copy.copy(self) is another object with the attributes of
\* self, and the assignment replaces the copy's queue_lock alone
copy_with_nullcontext(self) ==
    [self |-> self, self_copy |-> [self EXCEPT !.queue_lock = "nullcontext"]]

\* lines 174-176: `with self.queue_lock` enters whatever the attribute holds
\* (the lock blocks while it is held, a nullcontext never does), then the
\* copy of self
Acquire(t) ==
    /\ pc[t] = "acquire"
    /\ api_self.queue_lock = "Lock" => queue_lock = 0
    /\ queue_lock' = IF api_self.queue_lock = "Lock" THEN t ELSE queue_lock
    /\ \E made \in {copy_with_nullcontext(api_self)} :
          /\ api_self' = made.self
          /\ l_self_copy' = [l_self_copy EXCEPT ![t] = made.self_copy]
    /\ pc' = [pc EXCEPT ![t] = "enter"]
    /\ UNCHANGED <<cls_init, req_in, l_txt2imgreq, l_script_runner,
                   l_script_runner_args, override, p, result, runner_vars, shim_vars, det_vars>>

\* OverrideInit(cls, scripts=script_runner) and line 196 of __enter__
EnterSave(t) ==
    /\ pc[t] = "enter"
    /\ override' = [override EXCEPT ![t] =
            [ cls |-> "StableDiffusionProcessingTxt2Img",
              kwargs |-> [scripts |-> l_script_runner[t]],
              original_init |-> cls_init ]]
    /\ pc' = [pc EXCEPT ![t] = "install"]
    /\ UNCHANGED <<queue_lock, cls_init, api_self, req_in, l_txt2imgreq, l_script_runner,
                   l_script_runner_args, l_self_copy, p, result, runner_vars, shim_vars, det_vars>>

\* line 197 of __enter__
EnterInstall(t) ==
    /\ pc[t] = "install"
    /\ cls_init' = [fn |-> "override_init", self |-> override[t]]
    /\ pc' = [pc EXCEPT ![t] = "call"]
    /\ UNCHANGED <<queue_lock, api_self, local_vars, runner_vars, shim_vars, det_vars>>

\* self_copy.text2imgapi(txt2imgreq), as far as the processing object: it
\* enters self_copy.queue_lock and calls the class's __init__
Construct(t) ==
    /\ pc[t] = "call"
    /\ l_self_copy[t].queue_lock = "nullcontext" \/ queue_lock = 0
    /\ p' = [p EXCEPT ![t] = call_init(cls_init, l_txt2imgreq[t])]
    /\ pc' = [pc EXCEPT ![t] = "generate"]
    /\ UNCHANGED <<queue_lock, cls_init, api_self, req_in, l_txt2imgreq, l_script_runner,
                   l_script_runner_args, l_self_copy, override, result, runner_vars,
                   shim_vars, det_vars>>

\* text2imgapi returns its response
Text2imgReturn(t) ==
    /\ pc[t] = "generate"
    /\ result' = [result EXCEPT ![t] = [raised |-> "", value |-> "TextToImageResponse"]]
    /\ pc' = [pc EXCEPT ![t] = "exit"]
    /\ UNCHANGED <<queue_lock, cls_init, api_self, req_in, l_txt2imgreq, l_script_runner,
                   l_script_runner_args, l_self_copy, override, p, runner_vars, shim_vars, det_vars>>

\* text2imgapi raises, before or after it constructed the processing object
Text2imgRaise(t) ==
    /\ pc[t] \in {"call", "generate"}
    /\ result' = [result EXCEPT ![t] = [raised |-> "Exception", in |-> "text2imgapi"]]
    /\ pc' = [pc EXCEPT ![t] = "exit"]
    /\ UNCHANGED <<queue_lock, cls_init, api_self, req_in, l_txt2imgreq, l_script_runner,
                   l_script_runner_args, l_self_copy, override, p, runner_vars, shim_vars, det_vars>>

\* OverrideInit.__exit__, on return and on exception alike
Exit(t) ==
    /\ pc[t] = "exit"
    /\ cls_init' = OverrideInit_exit(cls_init, override[t])
    /\ pc' = [pc EXCEPT ![t] = "release"]
    /\ UNCHANGED <<queue_lock, api_self, local_vars, runner_vars, shim_vars, det_vars>>

\* the end of `with self.queue_lock`: the context that was entered is left
Release(t) ==
    /\ pc[t] = "release"
    /\ queue_lock' = IF queue_lock = t THEN 0 ELSE queue_lock
    /\ pc' = [pc EXCEPT ![t] = "done"]
    /\ UNCHANGED <<cls_init, api_self, local_vars, runner_vars, shim_vars, det_vars>>

\* api_txt2img is left (the response or the exception goes to the caller) and
\* its locals are gone; the thread takes the next request
Respond(t) ==
    /\ pc[t] = "done"
    /\ pc' = [pc EXCEPT ![t] = "idle"]
    /\ req_in' = [req_in EXCEPT ![t] = NotCalled]
    /\ l_txt2imgreq' = [l_txt2imgreq EXCEPT ![t] = NotCalled]
    /\ l_script_runner' = [l_script_runner EXCEPT ![t] = NotCalled]
    /\ l_script_runner_args' = [l_script_runner_args EXCEPT ![t] = NotCalled]
    /\ l_self_copy' = [l_self_copy EXCEPT ![t] = NotCalled]
    /\ override' = [override EXCEPT ![t] = NotCalled]
    /\ p' = [p EXCEPT ![t] = NotCalled]
    /\ result' = [result EXCEPT ![t] = NotCalled]
    /\ heap' = LiveHeap(heap, [l_script_runner EXCEPT ![t] = NotCalled])
    /\ UNCHANGED <<queue_lock, cls_init, api_self, host_titles, call_vars, shim_vars, det_vars>>

Next ==
    \E t \in Threads :
        \/ Prepare(t)
        \/ Acquire(t)
        \/ EnterSave(t)
        \/ EnterInstall(t)
        \/ Construct(t)
        \/ Text2imgReturn(t)
        \/ Text2imgRaise(t)
        \/ Exit(t)
        \/ Release(t)
        \/ Respond(t)

Spec == Init /\ [][Next]_vars

\* Scheduling of a request that is past line 173: straight-line code runs on
\* (the nested call enters its context when that does not block), a
\* generation that started returns or raises, and the lock is fair: a thread
\* that finds it free again and again gets it.  New requests need not arrive.
Runs(t) == EnterSave(t) \/ EnterInstall(t) \/ Construct(t) \/ Exit(t) \/ Release(t)

GenerationEnds(t) == Text2imgReturn(t) \/ (pc[t] = "generate" /\ Text2imgRaise(t))

SpecFair ==
    /\ Init
    /\ [][Next]_vars
    /\ \A t \in Threads :
          /\ WF_vars(Runs(t))
          /\ WF_vars(GenerationEnds(t))
          /\ SF_vars(Acquire(t))

-----------------------------------------------------------------------------
(* Claims about api_txt2img (under Spec) *)

\* thread t is past lines 170-173 without an exception
Prepared(t) == l_txt2imgreq[t] # NotCalled

Decodes(units) ==
    \A i \in 1..Len(units) : create_processing_unit_args(units[i]).raised = ""

\* C7: for every request, one with script_args of its own included, once the
\* arguments are assembled the slice script_args[args_from:args_to] of the
\* controlnet script of the request's runner is exactly the assembled
\* ControlNet argument list.
C7_WindowHoldsCnArgs ==
    \A t \in Threads :
        (Prepared(t) /\ l_script_runner[t] # None) =>
            LET cn_script == heap[alwayson_scripts(heap, l_script_runner[t])[1].ref]
            IN  SubSeq(l_txt2imgreq[t].script_args, cn_script.args_from + 1,
                       cn_script.args_to) = l_script_runner_args[t]

\* C8: with no always-on script titled 'controlnet', create_cn_script_runner
\* returns (None, []) for units that decode; api_txt2img leaves script_args as
\* it came, removes controlnet_units, and the processing object of the
\* generation has scripts None.
C8_MissingScriptFallback ==
    \A t \in Threads :
        (/\ ~HostHasControlnet
         /\ req_in[t] # NotCalled
         /\ Decodes(nest_deprecated_cn_fields(req_in[t]).controlnet_units)) =>
            /\ Prepared(t)
            /\ l_script_runner[t] = None
            /\ l_script_runner_args[t] = <<>>
            /\ l_txt2imgreq[t].script_args = req_in[t].script_args
            /\ "controlnet_units" \notin DOMAIN l_txt2imgreq[t]
            /\ pc[t] \notin {"idle"}
            /\ (result[t] # NotCalled /\ result[t].raised # "") => result[t].in = "text2imgapi"
            /\ p[t] # NotCalled => p[t].scripts = None

\* without the script, a request with a unit and script arguments of its own
\* is in its generation
C8_Witness ==
    \E t \in Threads :
        /\ ~HostHasControlnet
        /\ pc[t] = "generate"
        /\ req_in[t].controlnet_units # <<>>
        /\ req_in[t].script_args # <<>>
        /\ p[t].scripts = None

\* C10: whenever no request holds queue_lock the class's __init__ is the
\* original; it is another one only while the thread that holds the lock is
\* between its __enter__ and its __exit__ (so it is restored before the lock
\* is released, on return and on exception), and every processing object
\* constructed has had the original constructor run and then scripts set to
\* its request's runner.
C10_OverrideConfinedToLock ==
    /\ queue_lock = 0 => cls_init = Original
    /\ cls_init # Original =>
          \E t \in Threads :
              /\ queue_lock = t
              /\ pc[t] \in {"call", "generate", "exit"}
              /\ cls_init = [fn |-> "override_init", self |-> override[t]]
              /\ override[t].original_init = Original
    /\ \A t \in Threads :
          /\ pc[t] \in {"release", "done"} /\ queue_lock = t => cls_init = Original
          /\ p[t] # NotCalled =>
                /\ p[t].scripts = l_script_runner[t]
                /\ p[t].trace = <<"original_init", "setattr scripts">>

\* a request whose text2imgapi raised after constructing its object is about
\* to release the lock while another request waits for it
C10_Witness ==
    \E t, u \in Threads :
        /\ t # u
        /\ pc[t] = "release"
        /\ queue_lock = t
        /\ result[t].raised # ""
        /\ p[t] # NotCalled
        /\ l_script_runner[t] # None
        /\ pc[u] = "acquire"

-----------------------------------------------------------------------------
(* Claims about queue_lock (under SpecFair) *)

InWith == {"enter", "install", "call", "generate", "exit", "release"}

\* the Api object keeps its lock, every copy made has the no-op context (so
\* the nested call is never made to wait), and a thread holds the lock exactly
\* while it is inside `with self.queue_lock`
LockKept ==
    /\ api_self.queue_lock = "Lock"
    /\ \A t \in Threads :
          /\ l_self_copy[t] # NotCalled => l_self_copy[t].queue_lock = "nullcontext"
          /\ queue_lock = t <=> pc[t] \in InWith
          /\ pc[t] \in InWith => l_self_copy[t] # NotCalled

\* C11: the Api object's queue_lock attribute stays the lock; the nested
\* text2imgapi runs on a copy whose queue_lock is a no-op context and never
\* waits for the lock; a request holds the lock exactly inside its with block,
\* so the lock is free again after a return and after an exception; and with
\* terminating generations and a fair lock every request that waits for the
\* lock eventually holds it.
C11_NoDeadlockNoLostLock ==
    /\ []LockKept
    /\ \A t \in Threads : (pc[t] = "acquire") ~> (queue_lock = t)

\* a request's text2imgapi raised and the request has left its with block;
\* the request that waited meanwhile holds the lock and is in its generation
\* on its own copy
C11_Witness ==
    \E t, u \in Threads :
        /\ t # u
        /\ pc[t] = "done"
        /\ result[t].raised = "Exception"
        /\ queue_lock = u
        /\ pc[u] = "generate"
        /\ l_self_copy[u].queue_lock = "nullcontext"
        /\ api_self.queue_lock = "Lock"

-----------------------------------------------------------------------------
(* controlnet_api.detect: the /controlnet/detect endpoint *)

MaxImages == 2

available_modules ==
    << "canny", "depth", "depth_leres", "fake_scribble", "hed", "mlsd", "normal_map",
       "openpose", "segmentation" >>

\* x in lst
contains(lst, x) == \E i \in 1..Len(lst) : lst[i] = x

\* lines 421-424: the response of a rejected request, None for an accepted one
detect_reject_empty_first(controlnet_module, controlnet_input_images) ==
    IF Len(controlnet_input_images) = 0
    THEN [images |-> <<>>, info |-> "No image selected"]
    ELSE IF ~contains(available_modules, controlnet_module)
    THEN [images |-> <<>>, info |-> "Module not available"]
    ELSE None
detect_reject(controlnet_module, controlnet_input_images) ==
    IF ~contains(available_modules, controlnet_module)
    THEN [images |-> <<>>, info |-> "Module not available"]
    ELSE IF Len(controlnet_input_images) = 0
    THEN [images |-> <<>>, info |-> "No image selected"]
    ELSE None

\* lines 433-450: the annotator the if/elif chain calls for a module
annotator_of(controlnet_module) ==
    CASE controlnet_module = "canny" -> "canny"
      [] controlnet_module = "hed" -> "hed"
      [] controlnet_module = "mlsd" -> "mlsd"
      [] controlnet_module = "depth" -> "midas"
      [] controlnet_module = "normal_map" -> "midas_normal"
      [] controlnet_module = "depth_leres" -> "leres"
      [] controlnet_module = "openpose" -> "openpose"
      [] controlnet_module = "fake_scribble" -> "fake_scribble"
      [] controlnet_module = "segmentation" -> "uniformer"
      [] OTHER -> ""

\* lines 452-463: the unload function called for a module, "" for none
unload_of_no_uniformer(controlnet_module) ==
    CASE controlnet_module = "hed" -> "unload_hed"
      [] controlnet_module = "mlsd" -> "unload_mlsd"
      [] controlnet_module \in {"depth", "normal_map"} -> "unload_midas"
      [] controlnet_module = "depth_leres" -> "unload_leres"
      [] controlnet_module = "openpose" -> "unload_openpose"
      [] OTHER -> ""
unload_of(controlnet_module) ==
    CASE controlnet_module = "hed" -> "unload_hed"
      [] controlnet_module = "mlsd" -> "unload_mlsd"
      [] controlnet_module \in {"depth", "normal_map"} -> "unload_midas"
      [] controlnet_module = "depth_leres" -> "unload_leres"
      [] controlnet_module = "openpose" -> "unload_openpose"
      [] controlnet_module = "segmentation" -> "unload_uniformer"
      [] OTHER -> ""

encode_pil_to_base64(image) ==
    IF lower(samples_format) = "png"
    THEN Ok([b64 |-> [format |-> "PNG", image |-> image.image]])
    ELSE IF lower(samples_format) \in {"jpg", "jpeg", "webp"}
    THEN IF lower(samples_format) \in {"jpg", "jpeg"}
         THEN Ok([b64 |-> [format |-> "JPEG", image |-> image.image]])
         ELSE Ok([b64 |-> [format |-> "WEBP", image |-> image.image]])
    ELSE Raise("HTTPException")

encode_np_to_base64(image) == encode_pil_to_base64([image |-> image.ndarray])

encode_to_base64(image) ==
    IF "str" \in DOMAIN image THEN Ok(image)
    ELSE IF "image" \in DOMAIN image THEN encode_pil_to_base64(image)
    ELSE IF "ndarray" \in DOMAIN image THEN encode_np_to_base64(image)
    ELSE Ok(Str(""))

\* list(map(encode_to_base64, results)): the first exception ends it
encode_all(lst) ==
    IF \E i \in 1..Len(lst) : encode_to_base64(lst[i]).raised # ""
    THEN Raise("HTTPException")
    ELSE Ok([i \in 1..Len(lst) |-> encode_to_base64(lst[i]).value])

DetectModules ==
    {available_modules[i] : i \in 1..Len(available_modules)} \cup {"None", "Canny", "scribble"}

DetectImages == {"imgA", "imgB", "not an image"}

SampleFormats == {"png", "JPEG", "bmp"}

InitDetect ==
    /\ det_in \in [controlnet_module : DetectModules,
                   controlnet_input_images : SeqsUpTo(DetectImages, MaxImages)]
    /\ samples_format \in SampleFormats
    /\ det_pc = "start"
    /\ det_log = <<>>
    /\ results = <<>>
    /\ det_ret = NotCalled
    /\ ShimIdle
    /\ RunnerIdle
    /\ TxtIdle

\* lines 421-428
DetectCheck ==
    /\ det_pc = "start"
    /\ \E rejected \in {detect_reject(det_in.controlnet_module, det_in.controlnet_input_images)} :
         IF rejected # None
         THEN /\ det_ret' = Ok(rejected)
              /\ det_pc' = "returned"
         ELSE /\ det_pc' = "loop"
              /\ UNCHANGED det_ret
    /\ UNCHANGED <<det_in, det_log, results, samples_format, shim_vars, runner_vars, txt_vars>>

\* one turn of the loop, lines 430-450, in which the annotator returns; an
\* input that is no image ends the handler with the exception
DetectImage ==
    /\ det_pc = "loop"
    /\ Len(results) < Len(det_in.controlnet_input_images)
    /\ \E img \in {ImageOpen(det_in.controlnet_input_images[Len(results) + 1])} :
         IF img.raised # ""
         THEN /\ det_ret' = img
              /\ det_pc' = "returned"
              /\ UNCHANGED <<det_log, results>>
         ELSE /\ det_log' = Append(det_log,
                    [kind |-> "annotate", fn |-> annotator_of(det_in.controlnet_module),
                     img |-> img.value.image])
              /\ results' = Append(results,
                    [ndarray |-> [annotator |-> annotator_of(det_in.controlnet_module),
                                  img |-> img.value.image]])
              /\ UNCHANGED <<det_pc, det_ret>>
    /\ UNCHANGED <<det_in, samples_format, shim_vars, runner_vars, txt_vars>>

\* one turn of the loop in which the annotator raises
DetectAnnotatorRaises ==
    /\ det_pc = "loop"
    /\ Len(results) < Len(det_in.controlnet_input_images)
    /\ \E img \in {ImageOpen(det_in.controlnet_input_images[Len(results) + 1])} :
         /\ img.raised = ""
         /\ det_log' = Append(det_log,
               [kind |-> "annotate", fn |-> annotator_of(det_in.controlnet_module),
                img |-> img.value.image])
    /\ det_ret' = Raise("Exception")
    /\ det_pc' = "returned"
    /\ UNCHANGED <<det_in, results, samples_format, shim_vars, runner_vars, txt_vars>>

\* lines 452-463, after the loop
DetectUnload ==
    /\ det_pc = "loop"
    /\ Len(results) = Len(det_in.controlnet_input_images)
    /\ det_log' = IF unload_of(det_in.controlnet_module) # ""
                  THEN Append(det_log, [kind |-> "unload",
                                        fn |-> unload_of(det_in.controlnet_module)])
                  ELSE det_log
    /\ det_pc' = "encode"
    /\ UNCHANGED <<det_in, results, det_ret, samples_format, shim_vars, runner_vars, txt_vars>>

\* lines 465-466
DetectRespond ==
    /\ det_pc = "encode"
    /\ \E results64 \in {encode_all(results)} :
         det_ret' = IF results64.raised # "" THEN results64
                    ELSE Ok([images |-> results64.value, info |-> "Success"])
    /\ det_pc' = "returned"
    /\ UNCHANGED <<det_in, det_log, results, samples_format, shim_vars, runner_vars, txt_vars>>

NextDetect ==
    \/ DetectCheck
    \/ DetectImage
    \/ DetectAnnotatorRaises
    \/ DetectUnload
    \/ DetectRespond

SpecDetect == InitDetect /\ [][NextDetect]_vars

-----------------------------------------------------------------------------
(* Claims about detect (under SpecDetect) *)

DetectReturned == det_pc = "returned" /\ det_ret.raised = ""

\* the nine modules as the claim C5 lists them
ClaimedModules ==
    {"canny", "depth", "depth_leres", "fake_scribble", "hed", "mlsd", "normal_map",
     "openpose", "segmentation"}

\* C5: a module outside the nine is answered images = [], 'Module not
\* available'; otherwise an empty image list is answered images = [], 'No image
\* selected'; the module check comes first; and a rejected request never has an
\* annotator or an unload called for it.
C5_DetectRejects ==
    /\ det_in.controlnet_module \notin ClaimedModules =>
          /\ det_log = <<>> /\ results = <<>>
          /\ det_pc \in {"start", "returned"}
          /\ det_pc = "returned" =>
                det_ret = Ok([images |-> <<>>, info |-> "Module not available"])
    /\ (det_in.controlnet_module \in ClaimedModules
            /\ det_in.controlnet_input_images = <<>>) =>
          /\ det_log = <<>> /\ results = <<>>
          /\ det_pc \in {"start", "returned"}
          /\ det_pc = "returned" =>
                det_ret = Ok([images |-> <<>>, info |-> "No image selected"])

\* a request with an unknown module and no image was answered
C5_Witness ==
    /\ det_pc = "returned"
    /\ det_in.controlnet_module = "Canny"
    /\ det_in.controlnet_input_images = <<>>
    /\ det_ret.value.info = "Module not available"

\* the unload operation of each module as the claim C6 lists them
ClaimedUnload(controlnet_module) ==
    CASE controlnet_module = "hed" -> "unload_hed"
      [] controlnet_module = "mlsd" -> "unload_mlsd"
      [] controlnet_module = "depth" -> "unload_midas"
      [] controlnet_module = "normal_map" -> "unload_midas"
      [] controlnet_module = "depth_leres" -> "unload_leres"
      [] controlnet_module = "openpose" -> "unload_openpose"
      [] controlnet_module = "segmentation" -> "unload_uniformer"
      [] controlnet_module = "canny" -> ""
      [] controlnet_module = "fake_scribble" -> ""

\* C6: in an accepted call the annotator is applied once to each image in
\* input order; the module's unload is called once, after the last image and
\* never between two images (none for canny and fake_scribble); and only then
\* is the response produced, one result per image in input order, 'Success'.
C6_DetectOrdering ==
    LET images == det_in.controlnet_input_images
        n == Len(images)
        m == det_in.controlnet_module
    IN  (m \in ClaimedModules /\ n > 0) =>
          /\ \A j \in 1..Len(det_log) :
                IF j <= n
                THEN /\ det_log[j].kind = "annotate"
                     /\ det_log[j].img = images[j]
                     /\ det_log[j].fn # ""
                     /\ det_log[j].fn = det_log[1].fn
                ELSE /\ j = n + 1
                     /\ det_log[j] = [kind |-> "unload", fn |-> ClaimedUnload(m)]
                     /\ Len(results) = n
          /\ Len(results) <= Len(det_log)
          /\ det_pc = "encode" =>
                Len(det_log) = n + (IF ClaimedUnload(m) = "" THEN 0 ELSE 1)
          /\ DetectReturned =>
                /\ Len(det_log) = n + (IF ClaimedUnload(m) = "" THEN 0 ELSE 1)
                /\ det_ret.value.info = "Success"
                /\ Len(det_ret.value.images) = n
                /\ \A i \in 1..n :
                      det_ret.value.images[i].b64.image.img = images[i]

\* two different images went through midas for normal_map, the model was
\* unloaded and the response was produced
C6_Witness ==
    /\ DetectReturned
    /\ det_in.controlnet_module = "normal_map"
    /\ Len(det_in.controlnet_input_images) = 2
    /\ det_in.controlnet_input_images[1] # det_in.controlnet_input_images[2]
    /\ Len(det_log) = 3
    /\ det_log[3].fn = "unload_midas"

====
